---- MODULE Spec2Model ----
(***************************************************************************)
(* Thermo Tracker: the usage ledger engine (usage_manager.py) together     *)
(* with the files it depends on across runs: the JSON config file, the     *)
(* registry workbook and the usage workbooks.                              *)
(*                                                                         *)
(* A state holds the files on disk and, while a process runs, its memory   *)
(* (config_data, config_update, the loaded worksheet, the position pc in   *)
(* run_app and the locals of the valve loop).  One action is one method    *)
(* of the program, or one answer of the user at a prompt.  The process     *)
(* may end at any step (Terminate); a KeyError ends it as well.            *)
(*                                                                         *)
(* The ledger lives in one Excel folder: the user keeps the folder at the  *)
(* folder prompt, so the custom folder dialogue of folder_manager.py is    *)
(* outside this model.                                                     *)
(***************************************************************************)
EXTENDS Integers, Sequences, FiniteSets, TLC

(* ------------------------------ bounds -------------------------------- *)

\* The largest number of radiators the user registers.
MaxDevices == 2

\* The device rows all usage files together may hold: no run starts that
\* could not append its Block within it.
MaxDeviceRows == 4

(* ------------------------- program constants -------------------------- *)

DATE == 1
NAME == 2
RADIATOR_ID == 3
COEFFICIENT == 4
RAW_READING == 5
ACTUAL_VALUE == 6
TOTAL == 7
VALVE_SETTING == 8
NOTES == 9
BLANK_LINES == 3
FIRST_DATA_ROW == 2
SampleDevices == 3

EMPTY_STR == ""
DEFAULT_NOTE == "No additional notes."
DATE_AUTO == "Auto"
DATE_MANUAL == "Manual"
EUROPEAN == "European"
AMERICAN == "American"
DEFAULT_EXCEL_FOLDER == "thermo_tracker"
RADIATORS_REGISTRY == "radiators_registry.xlsx"
USAGE_FOLDER == "radiators_usage"
HEADERS ==
    << <<"Date">>, <<"Radiator Name">>, <<"Radiator ID">>, <<"Coefficient">>,
       <<"Raw Reading">>, <<"Actual Value">>, <<"Total">>,
       <<"Valve Setting">>, <<"Notes">> >>

\* The usage file names the user may configure.
FileNames == {"usage_A.xlsx", "usage_B.xlsx"}

(* ------------------------ values and dictionaries --------------------- *)

\* Python's None, and a present value: a cell, a file or a local is None
\* or <<v>>.
None == <<>>
Some(v) == <<v>>

EmptyDict == <<>>
Get(d, k, default) == IF k \in DOMAIN d THEN d[k] ELSE default
Put(d, k, v) == [x \in (DOMAIN d) \cup {k} |-> IF x = k THEN v ELSE d[x]]

join(a, b) == a \o "/" \o b

Max(S) == CHOOSE x \in S : \A y \in S : y <= x

(* ----------------------------- worksheets ----------------------------- *)

\* A worksheet: rows[r][c] is the value of cell (r, c), None when the cell
\* is empty; Len(rows) is the highest row holding a cell; merged holds the
\* merged row ranges <<first, last>> of the notes column.
EmptyRow == [c \in 1..NOTES |-> None]
Workbook == [rows |-> <<>>, merged |-> {}]

max_row(ws) == IF Len(ws.rows) = 0 THEN 1 ELSE Len(ws.rows)

\* worksheet.cell(row, column) creates the cell when it does not exist yet.
get_cell(ws, row) ==
    IF row <= Len(ws.rows) THEN ws
    ELSE [ws EXCEPT !.rows =
            [r \in 1..row |-> IF r <= Len(ws.rows) THEN ws.rows[r] ELSE EmptyRow]]

cell_value(ws, row, col) ==
    IF row <= Len(ws.rows) THEN ws.rows[row][col] ELSE None

\* worksheet.cell(row, column, value): a value of None is not assigned.
cell(ws, row, col, value) ==
    IF value = None THEN get_cell(ws, row)
    ELSE [get_cell(ws, row) EXCEPT !.rows[row][col] = value]

append(ws, values) == [ws EXCEPT !.rows = Append(ws.rows, values)]

merge_cells(ws, first, last) ==
    [get_cell(ws, last) EXCEPT !.merged = ws.merged \cup {<<first, last>>}]

\* workbook.save: a cell whose value is None is not stored, so trailing rows
\* of such cells are gone on the next load; a blank string is a stored cell.
LastStoredRow(ws) ==
    Max({0} \cup {r \in 1..Len(ws.rows) : ws.rows[r] # EmptyRow}
            \cup {m[2] : m \in ws.merged})

save_workbook(ws) == [ws EXCEPT !.rows = SubSeq(ws.rows, 1, LastStoredRow(ws))]

\* The columns of a usage sheet that hold text.
TextCols == {DATE, NAME, VALVE_SETTING, NOTES}

\* load_workbook: every stored cell is a cell of the worksheet again; a
\* cell stored with a blank string is read with the value None.
load_workbook(file) ==
    [file[1] EXCEPT !.rows =
        [r \in 1..Len(file[1].rows) |->
            [c \in 1..NOTES |->
                IF c \in TextCols /\ file[1].rows[r][c] = Some(EMPTY_STR)
                THEN None
                ELSE file[1].rows[r][c]]]]

RECURSIVE fill_col(_, _, _, _, _)
\* _fill_col over rows first..last, value(row) given as a function.
fill_col(ws, first, last, value, col) ==
    IF first > last THEN ws
    ELSE fill_col(cell(ws, first, col, value[first]), first + 1, last, value, col)

(* ------------------------------- state -------------------------------- *)

VARIABLES
    env,            \* what the user may enter, and the capacity of the disk
    config_file,    \* the JSON config file: None or <<dict>>
    excel_folder,   \* whether the Excel folder exists
    usage_folder,   \* whether the usage folder exists
    registry_file,  \* the registry workbook: None or <<rows>>
    usage_files,    \* usage_files[name]: None or <<worksheet>> as saved
    pc,             \* the running process's position; "off": no process
    config_data,    \* ThermoTracker.config_data
    config_update,  \* ThermoTracker.config_update[UPDATE]
    worksheet,      \* UsageGenerator.worksheet
    file_path,      \* UsageGenerator.file_path (the file's name)
    i,              \* _update_valve_setting: the loop index
    radiator_name,  \* _process_valve_setting_update: the local
    current_valve_setting,
    new_valve_setting,
    date_obj,       \* _get_date_manually: the checked date, None or <<date>>
    log             \* the invalid dates this process has logged

disk == <<config_file, excel_folder, usage_folder, registry_file, usage_files>>
memory == <<config_data, config_update, worksheet, file_path>>
locals == <<i, radiator_name, current_valve_setting, new_valve_setting>>
date_locals == <<date_obj, log>>
vars == <<env, disk, pc, memory, locals, date_locals>>

\* The documented sample has three radiators; the main profile has up to
\* MaxDevices of them and two usage files.
MainProfile ==
    [counts |-> 1..MaxDevices, names |-> FileNames,
     valves |-> {"2", "3"}, readings |-> {10}, notes |-> {},
     dates |-> {<<1, 4, 2025>>}, date_formats |-> {EUROPEAN},
     date_input_modes |-> {DATE_AUTO}, ids |-> {}, coefficients |-> {5},
     capacity |-> MaxDeviceRows]

SampleProfile ==
    [counts |-> {SampleDevices}, names |-> {"usage_A.xlsx"},
     valves |-> {"2"}, readings |-> {7, 10, 15}, notes |-> {"cold week"},
     dates |-> {<<1, 4, 2025>>}, date_formats |-> {EUROPEAN},
     date_input_modes |-> {DATE_AUTO}, ids |-> {}, coefficients |-> {},
     capacity |-> 2 * SampleDevices]

\* One radiator and no choice but the file's name, with room for a Block
\* more.
LongProfile ==
    [counts |-> {1}, names |-> FileNames,
     valves |-> {"2"}, readings |-> {10}, notes |-> {},
     dates |-> {<<1, 4, 2025>>}, date_formats |-> {EUROPEAN},
     date_input_modes |-> {DATE_AUTO}, ids |-> {}, coefficients |-> {},
     capacity |-> MaxDeviceRows + 1]

\* One radiator and one file, the date entered by hand in either format:
\* <<day, month, year>> entries that are dates and entries that are none.
ManualProfile ==
    [counts |-> {1}, names |-> {"usage_A.xlsx"},
     valves |-> {"2"}, readings |-> {10}, notes |-> {},
     dates |-> {<<1, 4, 2025>>, <<31, 4, 2025>>, <<29, 2, 2024>>,
                <<29, 2, 2025>>},
     date_formats |-> {EUROPEAN, AMERICAN},
     date_input_modes |-> {DATE_MANUAL, DATE_AUTO}, ids |-> {7},
     coefficients |-> {3},
     capacity |-> MaxDevices]

Profiles == {MainProfile, SampleProfile, LongProfile, ManualProfile}

Init ==
    /\ env \in Profiles
    /\ config_file = None
    /\ excel_folder = FALSE
    /\ usage_folder = FALSE
    /\ registry_file = None
    /\ usage_files = [f \in FileNames |-> None]
    /\ pc = "off"
    /\ config_data = EmptyDict
    /\ config_update = FALSE
    /\ worksheet = Workbook
    /\ file_path = EMPTY_STR
    /\ i = 0
    /\ radiator_name = None
    /\ current_valve_setting = None
    /\ new_valve_setting = None
    /\ date_obj = None
    /\ log = {}

\* The process is gone: its memory with it.
Exit ==
    /\ pc' = "off"
    /\ config_data' = EmptyDict
    /\ config_update' = FALSE
    /\ worksheet' = Workbook
    /\ file_path' = EMPTY_STR
    /\ i' = 0
    /\ radiator_name' = None
    /\ current_valve_setting' = None
    /\ new_valve_setting' = None
    /\ date_obj' = None
    /\ log' = {}

exists(path) == usage_files[path] # None

\* The device rows the usage files hold.
DeviceRows(ws) ==
    Cardinality({r \in FIRST_DATA_ROW..Len(ws.rows) : ws.rows[r][NAME] # None})

RECURSIVE Sum(_, _)
Sum(f, S) ==
    IF S = {} THEN 0
    ELSE LET x == CHOOSE y \in S : TRUE IN f[x] + Sum(f, S \ {x})

UsedRows ==
    Sum([f \in FileNames |->
            IF usage_files[f] = None THEN 0 ELSE DeviceRows(usage_files[f][1])],
        FileNames)

\* A run starts only while its Block fits the capacity.
CanStart ==
    UsedRows + (IF registry_file = None THEN 1 ELSE Len(registry_file[1]) - 1)
        <= env.capacity

(* ------------------------- run_app: the set-up ------------------------ *)

\* ThermoTracker.__init__ and ConfigManager.open_config.
open_config ==
    /\ pc = "off"
    /\ CanStart
    /\ config_data' =
         IF config_file = None
         THEN Put(EmptyDict, "excel_folder", DEFAULT_EXCEL_FOLDER)
         ELSE config_file[1]
    /\ config_update' = FALSE
    /\ pc' = "handle_folder_selection"
    /\ UNCHANGED <<env, disk, worksheet, file_path, locals, date_locals>>

\* handle_folder_selection, the user keeping the folder.
create_default_folder ==
    /\ pc = "handle_folder_selection"
    /\ IF ~excel_folder
       THEN excel_folder' = TRUE /\ config_update' = TRUE
       ELSE UNCHANGED <<excel_folder, config_update>>
    /\ pc' = "setup_registry"
    /\ UNCHANGED <<env, config_file, usage_folder, registry_file, usage_files,
                   config_data, worksheet, file_path, locals, date_locals>>

\* utils.update_config_path: (config_data, config_update) after it.
update_config_path(data, update, path_key, path_suffix) ==
    LET new == Put(data, path_key, join(data["excel_folder"], path_suffix))
    IN  <<new, update \/ Get(data, path_key, None) # new[path_key]>>

RadiatorNames == <<"Kitchen", "Living Room", "Gym">>

\* The entry the user confirms for radiator radiator_num.
radiator_entry(radiator_num) ==
    << Some(IF radiator_num <= Len(RadiatorNames)
            THEN RadiatorNames[radiator_num]
            ELSE "Radiator " \o ToString(radiator_num)),
       Some(radiator_num - 1),
       Some(radiator_num) >>

REGISTRY_HEADERS == << <<"Radiator Name">>, <<"Radiator ID">>, <<"Coefficient">> >>

\* RegistryGenerator._populate_registry_worksheet: the header and one row
\* per radiator.
populate_registry_worksheet(radiators_owned) ==
    <<REGISTRY_HEADERS>> \o [n \in 1..radiators_owned |-> radiator_entry(n)]

\* An update that lets the user give a radiator another name.
update_registry_with_names(registry, ids, coefficients) ==
    {registry} \cup
    {[registry EXCEPT ![n][1] = Some("Radiator " \o ToString(id))] :
        n \in FIRST_DATA_ROW..Len(registry), id \in ids}

\* RegistryUpdater.update_registry: the registries the user may leave, each
\* with the id, the coefficient or both of at most one radiator changed.
update_registry(registry, ids, coefficients) ==
    {registry} \cup
    UNION {{[registry EXCEPT ![n][2] = id, ![n][3] = coefficient] :
               id \in {registry[n][2]} \cup {Some(x) : x \in ids},
               coefficient \in {registry[n][3]}
                                  \cup {Some(x) : x \in coefficients}} :
           n \in FIRST_DATA_ROW..Len(registry)}

\* RegistryManager.update_registry_path and setup_registry.
setup_registry ==
    /\ pc = "setup_registry"
    /\ LET upd == update_config_path(config_data, config_update,
                                     "registry_file", RADIATORS_REGISTRY)
       IN  IF registry_file = None
           THEN \E radiators_owned \in env.counts :
                  /\ config_data' = Put(upd[1], "radiators_owned", radiators_owned)
                  /\ config_update' = TRUE
                  /\ registry_file' =
                       Some(populate_registry_worksheet(radiators_owned))
           ELSE /\ config_data' = upd[1]
                /\ config_update' = upd[2]
                /\ \E registry \in update_registry(registry_file[1], env.ids,
                                                    env.coefficients) :
                     registry_file' = Some(registry)
    /\ pc' = "configure_usage"
    /\ UNCHANGED <<env, config_file, excel_folder, usage_folder, usage_files,
                   worksheet, file_path, locals, date_locals>>

\* usage_config_setup and prompt_usage_config_updates: the file name, the
\* date format and the date input mode the user confirms.
usage_config(data, name, date_format, date_input_mode) ==
    Put(Put(Put(data, "usage_name", name), "date_format", date_format),
        "date_input_mode", date_input_mode)

\* UsageManager.update_usage_path and _configure_usage.  The first-time
\* set-up stores a file name; later the user may change it.  Reading the
\* current name for the prompt raises KeyError when the config holds none.
configure_usage ==
    /\ pc = "configure_usage"
    /\ LET upd == update_config_path(config_data, config_update,
                                     "usage_folder_path", USAGE_FOLDER)
       IN  IF ~usage_folder
           THEN \E name \in env.names, date_format \in env.date_formats,
                   date_input_mode \in env.date_input_modes :
                  /\ config_data' =
                       usage_config(upd[1], name, date_format, date_input_mode)
                  /\ config_update' = TRUE
                  /\ pc' = "manage_usage"
                  /\ UNCHANGED <<worksheet, file_path, locals, date_locals>>
           ELSE IF "usage_name" \notin DOMAIN upd[1]
           THEN Exit
           ELSE \/ /\ config_data' = upd[1]
                   /\ config_update' = upd[2]
                   /\ pc' = "manage_usage"
                   /\ UNCHANGED <<worksheet, file_path, locals, date_locals>>
                \/ \E name \in env.names, date_format \in env.date_formats,
                      date_input_mode \in env.date_input_modes :
                     /\ config_data' =
                          usage_config(upd[1], name, date_format,
                                       date_input_mode)
                     /\ config_update' = TRUE
                     /\ pc' = "manage_usage"
                     /\ UNCHANGED <<worksheet, file_path, locals, date_locals>>
    /\ UNCHANGED <<env, disk>>

(* --------------------- UsageGenerator: one Block ---------------------- *)

\* A set-up that writes the header in every run.
manage_usage_header_each_run ==
    /\ pc = "manage_usage"
    /\ file_path' = config_data["usage_name"]
    /\ usage_folder' = TRUE
    /\ worksheet' =
         IF ~exists(file_path')
         THEN append(Workbook, HEADERS)
         ELSE append(load_workbook(usage_files[file_path']), HEADERS)
    /\ pc' = "update_start_rows"
    /\ UNCHANGED <<env, config_file, excel_folder, registry_file, usage_files,
                   config_data, config_update, locals, date_locals>>

\* update_file_path, then manage_usage up to _initialize_usage_sheet: the
\* folder is made, the workbook created or loaded, and a new file gets its
\* header.
manage_usage ==
    /\ pc = "manage_usage"
    /\ file_path' = config_data["usage_name"]
    /\ usage_folder' = TRUE
    /\ worksheet' =
         IF ~exists(file_path')
         THEN append(Workbook, HEADERS)
         ELSE load_workbook(usage_files[file_path'])
    /\ pc' = "update_start_rows"
    /\ UNCHANGED <<env, config_file, excel_folder, registry_file, usage_files,
                   config_data, config_update, locals, date_locals>>

\* Start rows that forget the persisted one.
start_rows_without_previous(data, ws) ==
    LET start_row == max_row(ws) + 1
    IN  Put(Put(data, "start_row", start_row), "last_start_row", start_row)

\* A start row that leaves a row free after the last existing one.
start_rows_after_free_row(data, ws) ==
    LET start_row == max_row(ws) + 2
        last_start_row == Get(data, "start_row", start_row)
    IN  Put(Put(data, "start_row", start_row), "last_start_row", last_start_row)

\* A start row on the last existing row instead of after it.
start_rows_on_last_row(data, ws) ==
    LET start_row == max_row(ws)
        last_start_row == Get(data, "start_row", start_row)
    IN  Put(Put(data, "start_row", start_row), "last_start_row", last_start_row)

\* _update_start_rows: the config after it.
start_rows(data, ws) ==
    LET start_row == max_row(ws) + 1
        last_start_row == Get(data, "start_row", start_row)
    IN  Put(Put(data, "start_row", start_row), "last_start_row", last_start_row)

\* Start rows written without marking the config as updated.
update_start_rows_unmarked ==
    /\ pc = "update_start_rows"
    /\ config_data' = start_rows(config_data, worksheet)
    /\ config_update' = config_update
    /\ pc' = "fill_registry_data"
    /\ UNCHANGED <<env, disk, worksheet, file_path, locals, date_locals>>

update_start_rows ==
    /\ pc = "update_start_rows"
    /\ config_data' = start_rows(config_data, worksheet)
    /\ config_update' = TRUE
    /\ pc' = "fill_registry_data"
    /\ UNCHANGED <<env, disk, worksheet, file_path, locals, date_locals>>

RECURSIVE registry_rows(_, _, _)
\* _fill_registry_data: each registry row from FIRST_DATA_ROW on goes to
\* the first empty row, into columns 2, 3, 4.
registry_rows(ws, registry, n) ==
    IF n > Len(registry) THEN ws
    ELSE LET empty_row == max_row(ws) + 1
             w == cell(cell(cell(ws, empty_row, NAME, registry[n][1]),
                            empty_row, RADIATOR_ID, registry[n][2]),
                       empty_row, COEFFICIENT, registry[n][3])
         IN  registry_rows(w, registry, n + 1)

\* Registry rows copied from the header row on.
fill_registry_data_from_header ==
    /\ pc = "fill_registry_data"
    /\ worksheet' = registry_rows(worksheet, registry_file[1], 1)
    /\ pc' = "fill_dates"
    /\ UNCHANGED <<env, disk, config_data, config_update, file_path, locals, date_locals>>

fill_registry_data ==
    /\ pc = "fill_registry_data"
    /\ worksheet' = registry_rows(worksheet, registry_file[1], FIRST_DATA_ROW)
    /\ pc' = "fill_dates"
    /\ UNCHANGED <<env, disk, config_data, config_update, file_path, locals, date_locals>>

\* _get_usage_block_info
radiators_owned_of(data) == data["radiators_owned"]
start_row_of(data) == data["start_row"]

\* datetime.date(year, month, day) raises ValueError unless the three make
\* a date of the calendar.
is_leap(year) == year % 4 = 0 /\ (year % 100 # 0 \/ year % 400 = 0)

days_in_month(year, month) ==
    IF month = 2 THEN (IF is_leap(year) THEN 29 ELSE 28)
    ELSE IF month \in {4, 6, 9, 11} THEN 30 ELSE 31

\* A check that takes every day up to 31 in every month.
check_date_any_month(year, month, day) ==
    IF year \in 1..9999 /\ month \in 1..12 /\ day \in 1..31
    THEN Some([year |-> year, month |-> month, day |-> day])
    ELSE None

\* _check_date: the date object, or None for a date that does not exist.
check_date(year, month, day) ==
    IF /\ year \in 1..9999
       /\ month \in 1..12
       /\ day \in 1..days_in_month(year, month)
    THEN Some([year |-> year, month |-> month, day |-> day])
    ELSE None

\* strftime's %d and %m: two digits.
two_digits(n) == IF n < 10 THEN "0" \o ToString(n) ELSE ToString(n)

\* strftime's %Y: four digits.
four_digits(n) ==
    IF n < 10 THEN "000" \o ToString(n)
    ELSE IF n < 100 THEN "00" \o ToString(n)
    ELSE IF n < 1000 THEN "0" \o ToString(n)
    ELSE ToString(n)

\* _format_date: %d/%m/%Y for the European format, %m/%d/%Y otherwise.
format_date(date, date_format) ==
    IF date_format = EUROPEAN
    THEN two_digits(date.day) \o "/" \o two_digits(date.month)
            \o "/" \o four_digits(date.year)
    ELSE two_digits(date.month) \o "/" \o two_digits(date.day)
            \o "/" \o four_digits(date.year)

\* A date column that stops at the last device row.
fill_date_col_without_total(date) ==
    IF "radiators_owned" \notin DOMAIN config_data
    THEN Exit
    ELSE LET start_row == start_row_of(config_data)
             last == radiators_owned_of(config_data) + start_row - 1
         IN  /\ worksheet' =
                  fill_col(worksheet, start_row, last,
                           [r \in start_row..last |-> Some(date)], DATE)
             /\ pc' = "manage_valve_settings"
             /\ date_obj' = None
             /\ UNCHANGED <<config_data, config_update, file_path, locals, log>>

\* The end of _fill_dates: the date goes to the device rows and the total
\* row.  _get_usage_block_info raises KeyError when the config holds no
\* radiators_owned.
fill_date_col(date) ==
    IF "radiators_owned" \notin DOMAIN config_data
    THEN Exit
    ELSE LET start_row == start_row_of(config_data)
             last == radiators_owned_of(config_data) + start_row
         IN  /\ worksheet' =
                  fill_col(worksheet, start_row, last,
                           [r \in start_row..last |-> Some(date)], DATE)
             /\ pc' = "manage_valve_settings"
             /\ date_obj' = None
             /\ UNCHANGED <<config_data, config_update, file_path, locals, log>>

\* _fill_dates in the automatic mode: today's date, formatted.
fill_dates ==
    /\ pc = "fill_dates"
    /\ IF "date_input_mode" \notin DOMAIN config_data
       THEN Exit
       ELSE /\ config_data["date_input_mode"] = DATE_AUTO
            /\ \E today \in env.dates :
                 /\ check_date(today[3], today[2], today[1]) # None
                 /\ fill_date_col(
                       format_date(check_date(today[3], today[2], today[1])[1],
                                   config_data["date_format"]))
    /\ UNCHANGED <<env, disk>>

\* _get_date_manually up to the confirmation: the user enters day, month
\* and year; a date that does not exist is logged and asked again.
get_date_manually ==
    /\ pc = "fill_dates"
    /\ "date_input_mode" \in DOMAIN config_data
    /\ config_data["date_input_mode"] # DATE_AUTO
    /\ \E entry \in env.dates :
         LET day == entry[1]
             month == entry[2]
             year == entry[3]
         IN  IF check_date(year, month, day) = None
             THEN /\ log' = log \cup {entry}
                  /\ UNCHANGED <<pc, date_obj>>
             ELSE /\ date_obj' = check_date(year, month, day)
                  /\ pc' = "confirm_date"
                  /\ UNCHANGED log
    /\ UNCHANGED <<env, disk, memory, locals>>

\* _confirm_date: a confirmed date is written, a declined one asked again.
confirm_date ==
    /\ pc = "confirm_date"
    /\ \/ fill_date_col(format_date(date_obj[1], config_data["date_format"]))
       \/ /\ pc' = "fill_dates"
          /\ date_obj' = None
          /\ UNCHANGED <<memory, locals, log>>
    /\ UNCHANGED <<env, disk>>

\* The review of a previous Block's settings whatever is on disk.
manage_valve_settings_always_update ==
    /\ pc = "manage_valve_settings"
    /\ pc' = "update_valve_setting"
    /\ UNCHANGED <<env, disk, memory, locals, date_locals>>

\* _manage_valve_settings: a file not yet on disk gets initial entries, an
\* existing one the review of the previous Block's settings.
manage_valve_settings ==
    /\ pc = "manage_valve_settings"
    /\ pc' = IF ~exists(file_path)
             THEN "enter_initial_valve_settings"
             ELSE "update_valve_setting"
    /\ UNCHANGED <<env, disk, memory, locals, date_locals>>

\* Initial entries that are taken without the recap.
enter_initial_valve_settings_unreviewed ==
    /\ pc = "enter_initial_valve_settings"
    /\ LET start_row == start_row_of(config_data)
           last == start_row + radiators_owned_of(config_data) - 1
       IN  \E entry \in [start_row..last -> env.valves] :
             worksheet' =
               fill_col(worksheet, start_row, last,
                        [r \in start_row..last |-> Some(entry[r])], VALVE_SETTING)
    /\ pc' = "get_raw_readings"
    /\ UNCHANGED <<env, disk, config_data, config_update, file_path, locals,
                   date_locals>>

\* _enter_initial_valve_settings up to the recap: one entry per device row.
enter_initial_valve_settings ==
    /\ pc = "enter_initial_valve_settings"
    /\ LET start_row == start_row_of(config_data)
           last == start_row + radiators_owned_of(config_data) - 1
       IN  \E entry \in [start_row..last -> env.valves] :
             worksheet' =
               fill_col(worksheet, start_row, last,
                        [r \in start_row..last |-> Some(entry[r])], VALVE_SETTING)
    /\ pc' = "recap_valve_settings"
    /\ UNCHANGED <<env, disk, config_data, config_update, file_path, locals, date_locals>>

RECURSIVE recap_rows(_, _, _)
\* _recap_and_edit_column reads the name and the value of each device row.
recap_rows(ws, first, last) ==
    IF first > last THEN ws
    ELSE recap_rows(get_cell(ws, first), first + 1, last)

recap(ws, data) ==
    recap_rows(ws, start_row_of(data),
               start_row_of(data) + radiators_owned_of(data) - 1)

\* _recap_and_edit_column for the valve settings: "yes" enters them all
\* again; "no" accepts them, and _add_valve_setting_note follows.
recap_valve_settings ==
    /\ pc = "recap_valve_settings"
    /\ worksheet' = recap(worksheet, config_data)
    /\ \E modify \in BOOLEAN :
         pc' = IF modify THEN "enter_initial_valve_settings"
               ELSE "get_raw_readings"
    /\ UNCHANGED <<env, disk, config_data, config_update, file_path, locals, date_locals>>

\* The new setting written in place, into the previous Block's row.
new_row_in_place(data, n) == data["last_start_row"] + n

\* _update_valve_setting: the row of the previous run's and of this run's
\* value for the device at index n.
old_row(data, n) == data["last_start_row"] + n

new_row(data, n) == start_row_of(data) + n

\* _update_valve_setting enters its loop, or goes to the next device after
\* one has been kept or applied, or returns.
update_valve_setting ==
    /\ pc \in {"update_valve_setting", "KEEP", "APPLIED"}
    /\ LET next == IF pc = "update_valve_setting" THEN 0 ELSE i + 1
       IN  IF next < radiators_owned_of(config_data)
           THEN /\ i' = next
                /\ pc' = "process_valve_setting_update"
           ELSE /\ i' = 0
                /\ pc' = "get_raw_readings"
    /\ radiator_name' = None
    /\ current_valve_setting' = None
    /\ new_valve_setting' = None
    /\ UNCHANGED <<env, disk, date_locals, memory>>

\* _process_valve_setting_update begins: _get_valve_info reads the name and
\* the valve setting of the old row.
get_valve_info ==
    /\ pc = "process_valve_setting_update"
    /\ radiator_name' = cell_value(worksheet, old_row(config_data, i), NAME)
    /\ current_valve_setting' =
         cell_value(worksheet, old_row(config_data, i), VALVE_SETTING)
    /\ worksheet' = get_cell(worksheet, old_row(config_data, i))
    /\ pc' = "REVIEW"
    /\ UNCHANGED <<env, disk, date_locals, config_data, config_update, file_path,
                   i, new_valve_setting>>

\* _prompt_valve_update, the user answering "yes" to the change.
prompt_valve_update ==
    /\ pc = "REVIEW"
    /\ pc' = "ENTER"
    /\ UNCHANGED <<env, disk, memory, locals, date_locals>>

\* _prompt_valve_update returns the new setting the user enters.
enter_valve_setting ==
    /\ pc = "ENTER"
    /\ \E entry \in env.valves : new_valve_setting' = Some(entry)
    /\ pc' = "CONFIRM"
    /\ UNCHANGED <<env, disk, date_locals, memory, i, radiator_name, current_valve_setting>>

\* A confirmation that writes the new setting whatever the answer.
confirm_valve_update_always_writes ==
    /\ pc = "CONFIRM"
    /\ worksheet' = cell(worksheet, new_row(config_data, i),
                         VALVE_SETTING, new_valve_setting)
    /\ \E apply \in BOOLEAN : pc' = IF apply THEN "APPLIED" ELSE "REVIEW"
    /\ UNCHANGED <<env, disk, config_data, config_update, file_path, locals, date_locals>>

\* _confirm_valve_update: "yes" writes the new setting to the new row and
\* ends the device's loop; "no" leaves the sheet, and the loop calls
\* _prompt_valve_update again.
confirm_valve_update ==
    /\ pc = "CONFIRM"
    /\ \E apply \in BOOLEAN :
         IF apply
         THEN /\ worksheet' = cell(worksheet, new_row(config_data, i),
                                   VALVE_SETTING, new_valve_setting)
              /\ pc' = "APPLIED"
              /\ UNCHANGED new_valve_setting
         ELSE /\ worksheet' = worksheet
              /\ pc' = "REVIEW"
              /\ UNCHANGED new_valve_setting
    /\ UNCHANGED <<env, disk, date_locals, config_data, config_update, file_path,
                   i, radiator_name, current_valve_setting>>

\* A declined change that leaves the new row as it is.
keep_existing_valve_setting_unwritten ==
    /\ pc = "REVIEW"
    /\ new_valve_setting' = None
    /\ pc' = "KEEP"
    /\ UNCHANGED <<env, disk, date_locals, memory, i, radiator_name, current_valve_setting>>

\* _prompt_valve_update answered "no" returns None, and
\* _keep_existing_valve_setting writes the old setting to the new row.
keep_existing_valve_setting ==
    /\ pc = "REVIEW"
    /\ worksheet' = cell(worksheet, new_row(config_data, i),
                         VALVE_SETTING, current_valve_setting)
    /\ new_valve_setting' = None
    /\ pc' = "KEEP"
    /\ UNCHANGED <<env, disk, date_locals, config_data, config_update, file_path,
                   i, radiator_name, current_valve_setting>>

\* Readings whose actual values are written at once, before the recap.
get_raw_readings_with_actual_values ==
    /\ pc = "get_raw_readings"
    /\ LET start_row == start_row_of(config_data)
           last == start_row + radiators_owned_of(config_data) - 1
       IN  \E entry \in [start_row..last -> env.readings] :
             LET read == fill_col(worksheet, start_row, last,
                                  [r \in start_row..last |-> Some(entry[r])],
                                  RAW_READING)
             IN  worksheet' =
                   fill_col(read, start_row, last,
                            [r \in start_row..last |->
                               Some(cell_value(read, r, COEFFICIENT)[1]
                                      * entry[r])],
                            ACTUAL_VALUE)
    /\ pc' = "recap_raw_readings"
    /\ UNCHANGED <<env, disk, config_data, config_update, file_path, locals, date_locals>>

\* A second entry pass that asks for the first device row only.
get_raw_readings_first_row_again ==
    /\ pc = "get_raw_readings"
    /\ LET start_row == start_row_of(config_data)
           last == IF cell_value(worksheet, start_row, RAW_READING) = None
                   THEN start_row + radiators_owned_of(config_data) - 1
                   ELSE start_row
       IN  \E entry \in [start_row..last -> env.readings] :
             worksheet' =
               fill_col(worksheet, start_row, last,
                        [r \in start_row..last |-> Some(entry[r])], RAW_READING)
    /\ pc' = "recap_raw_readings"
    /\ UNCHANGED <<env, disk, config_data, config_update, file_path, locals,
                   date_locals>>

\* _get_raw_readings up to the recap: one reading per device row.
get_raw_readings ==
    /\ pc = "get_raw_readings"
    /\ LET start_row == start_row_of(config_data)
           last == start_row + radiators_owned_of(config_data) - 1
       IN  \E entry \in [start_row..last -> env.readings] :
             worksheet' =
               fill_col(worksheet, start_row, last,
                        [r \in start_row..last |-> Some(entry[r])], RAW_READING)
    /\ pc' = "recap_raw_readings"
    /\ UNCHANGED <<env, disk, config_data, config_update, file_path, locals, date_locals>>

\* _recap_and_edit_column for the raw readings.
recap_raw_readings ==
    /\ pc = "recap_raw_readings"
    /\ worksheet' = recap(worksheet, config_data)
    /\ \E modify \in BOOLEAN :
         pc' = IF modify THEN "get_raw_readings" ELSE "get_actual_values"
    /\ UNCHANGED <<env, disk, config_data, config_update, file_path, locals, date_locals>>

\* An actual value that adds the reading to the coefficient.
compute_actual_value_added(ws, row) ==
    Some(cell_value(ws, row, COEFFICIENT)[1] + cell_value(ws, row, RAW_READING)[1])

\* _compute_actual_value
compute_actual_value(ws, row) ==
    Some(cell_value(ws, row, COEFFICIENT)[1] * cell_value(ws, row, RAW_READING)[1])

\* _get_actual_values.  None * int raises TypeError.
get_actual_values ==
    /\ pc = "get_actual_values"
    /\ LET start_row == start_row_of(config_data)
           last == start_row + radiators_owned_of(config_data) - 1
       IN  IF \E r \in start_row..last :
                \/ cell_value(worksheet, r, COEFFICIENT) = None
                \/ cell_value(worksheet, r, RAW_READING) = None
           THEN Exit
           ELSE /\ worksheet' =
                     fill_col(worksheet, start_row, last,
                              [r \in start_row..last |->
                                 compute_actual_value(worksheet, r)],
                              ACTUAL_VALUE)
                /\ pc' = "get_total"
                /\ UNCHANGED <<config_data, config_update, file_path, locals, date_locals>>
    /\ UNCHANGED <<env, disk>>

\* A total that leaves out the Block's first device row.
total_value_without_first(ws, start_row, radiators_owned) ==
    Sum([r \in (start_row + 1)..(start_row + radiators_owned - 1) |->
            cell_value(ws, r, ACTUAL_VALUE)[1]],
        (start_row + 1)..(start_row + radiators_owned - 1))

\* _get_total: the sum of the Block's actual values, below its last device
\* row.
total_value(ws, start_row, radiators_owned) ==
    Sum([r \in start_row..(start_row + radiators_owned - 1) |->
            cell_value(ws, r, ACTUAL_VALUE)[1]],
        start_row..(start_row + radiators_owned - 1))

\* A total that is also saved to the usage file at once.
get_total_autosave ==
    /\ pc = "get_total"
    /\ LET start_row == start_row_of(config_data)
           radiators_owned == radiators_owned_of(config_data)
       IN  worksheet' =
             cell(worksheet, start_row + radiators_owned, TOTAL,
                  Some(total_value(worksheet, start_row, radiators_owned)))
    /\ usage_files' =
         [usage_files EXCEPT ![file_path] = Some(save_workbook(worksheet'))]
    /\ pc' = "get_notes"
    /\ UNCHANGED <<env, config_file, excel_folder, usage_folder, registry_file,
                   config_data, config_update, file_path, locals, date_locals>>

get_total ==
    /\ pc = "get_total"
    /\ LET start_row == start_row_of(config_data)
           radiators_owned == radiators_owned_of(config_data)
       IN  worksheet' =
             cell(worksheet, start_row + radiators_owned, TOTAL,
                  Some(total_value(worksheet, start_row, radiators_owned)))
    /\ pc' = "get_notes"
    /\ UNCHANGED <<env, disk, config_data, config_update, file_path, locals, date_locals>>

\* A note whose merged cell reaches over the total row.
get_notes_merged_over_total ==
    /\ pc = "get_notes"
    /\ \E note \in env.notes \cup {DEFAULT_NOTE} :
         LET start_row == start_row_of(config_data)
             merged == merge_cells(worksheet, start_row,
                          start_row + radiators_owned_of(config_data))
         IN  worksheet' = cell(merged, start_row, NOTES, Some(note))
    /\ pc' = "add_blank_lines"
    /\ UNCHANGED <<env, disk, config_data, config_update, file_path, locals, date_locals>>

\* Notes where a declined prompt leaves the merged cell without a text.
get_notes_without_default ==
    /\ pc = "get_notes"
    /\ \E note \in {Some(n) : n \in env.notes} \cup {None} :
         LET start_row == start_row_of(config_data)
             merged == merge_cells(worksheet, start_row,
                          start_row + radiators_owned_of(config_data) - 1)
         IN  worksheet' = cell(merged, start_row, NOTES, note)
    /\ pc' = "add_blank_lines"
    /\ UNCHANGED <<env, disk, config_data, config_update, file_path, locals,
                   date_locals>>

\* _get_notes: the user's note or the default one; _merge_valve_cells and
\* _insert_note.
get_notes ==
    /\ pc = "get_notes"
    /\ \E note \in env.notes \cup {DEFAULT_NOTE} :
         LET start_row == start_row_of(config_data)
             merged == merge_cells(worksheet, start_row,
                          start_row + radiators_owned_of(config_data) - 1)
         IN  worksheet' = cell(merged, start_row, NOTES, Some(note))
    /\ pc' = "add_blank_lines"
    /\ UNCHANGED <<env, disk, config_data, config_update, file_path, locals, date_locals>>

\* Blank lines that are cells without a value: none of them is stored.
blank_lines_unstored(ws, n) == get_cell(ws, max_row(ws) + n)

RECURSIVE blank_lines(_, _)
\* _add_blank_lines: an empty string in column 1 of the next empty row,
\* BLANK_LINES times.
blank_lines(ws, n) ==
    IF n = 0 THEN ws
    ELSE blank_lines(cell(ws, max_row(ws) + 1, DATE, Some(EMPTY_STR)), n - 1)

add_blank_lines ==
    /\ pc = "add_blank_lines"
    /\ worksheet' = blank_lines(worksheet, BLANK_LINES)
    /\ pc' = "save_usage"
    /\ UNCHANGED <<env, disk, config_data, config_update, file_path, locals, date_locals>>

\* save_usage: the workbook goes to the usage file.
save_usage ==
    /\ pc = "save_usage"
    /\ usage_files' =
         [usage_files EXCEPT ![file_path] = Some(save_workbook(worksheet))]
    /\ pc' = "open_usage"
    /\ UNCHANGED <<env, config_file, excel_folder, usage_folder, registry_file,
                   memory, locals, date_locals>>

\* open_usage: the user opens the file or not; nothing of the program
\* changes.
open_usage ==
    /\ pc = "open_usage"
    /\ pc' = "save_app"
    /\ UNCHANGED <<env, disk, memory, locals, date_locals>>

\* A save that writes the start rows into the config file as it was.
save_config_start_rows_only ==
    /\ pc = "save_app"
    /\ config_file' =
         IF config_update
         THEN LET old == IF config_file = None THEN EmptyDict
                         ELSE config_file[1]
              IN  Some(Put(Put(old, "start_row", config_data["start_row"]),
                           "last_start_row", config_data["last_start_row"]))
         ELSE config_file
    /\ Exit
    /\ UNCHANGED <<env, excel_folder, usage_folder, registry_file, usage_files>>

\* save_app: ConfigManager.save_config writes the config when it is marked
\* as updated; the process ends.
save_config ==
    /\ pc = "save_app"
    /\ config_file' = IF config_update THEN Some(config_data) ELSE config_file
    /\ Exit
    /\ UNCHANGED <<env, excel_folder, usage_folder, registry_file, usage_files>>

\* The process ends before its next step.
Terminate ==
    /\ pc # "off"
    /\ Exit
    /\ UNCHANGED <<env, disk>>

Next ==
    \/ open_config
    \/ create_default_folder
    \/ setup_registry
    \/ configure_usage
    \/ manage_usage
    \/ update_start_rows
    \/ fill_registry_data
    \/ fill_dates
    \/ get_date_manually
    \/ confirm_date
    \/ manage_valve_settings
    \/ enter_initial_valve_settings
    \/ recap_valve_settings
    \/ update_valve_setting
    \/ get_valve_info
    \/ prompt_valve_update
    \/ enter_valve_setting
    \/ confirm_valve_update
    \/ keep_existing_valve_setting
    \/ get_raw_readings
    \/ recap_raw_readings
    \/ get_actual_values
    \/ get_total
    \/ get_notes
    \/ add_blank_lines
    \/ save_usage
    \/ open_usage
    \/ save_config
    \/ Terminate

Spec == Init /\ [][Next]_vars

(* ------------------------ the claims' vocabulary ---------------------- *)

\* The positions of a run between _update_start_rows and the save: the
\* config holds this run's start_row, the disk still the file as loaded.
BlockPcs ==
    {"fill_registry_data", "fill_dates", "confirm_date",
     "manage_valve_settings",
     "enter_initial_valve_settings", "recap_valve_settings",
     "update_valve_setting", "process_valve_setting_update",
     "REVIEW", "ENTER", "CONFIRM", "KEEP", "APPLIED",
     "get_raw_readings", "recap_raw_readings", "get_actual_values",
     "get_total", "get_notes", "add_blank_lines", "save_usage"}

\* The positions of the subsequent-Block branch of the valve settings.
UpdatePcs ==
    {"update_valve_setting", "process_valve_setting_update",
     "REVIEW", "ENTER", "CONFIRM", "KEEP", "APPLIED"}

\* The positions of the first-Block branch.
InitialPcs == {"enter_initial_valve_settings", "recap_valve_settings"}

\* The worksheet as this run got it: the file's, or a new one's header.
Loaded ==
    IF exists(file_path) THEN load_workbook(usage_files[file_path])
    ELSE append(Workbook, HEADERS)

\* The rows where a Block of a worksheet starts: a device row after the
\* header or after a row that is none.
BlockStarts(ws) ==
    {r \in FIRST_DATA_ROW..Len(ws.rows) :
        /\ ws.rows[r][NAME] # None
        /\ r = FIRST_DATA_ROW \/ ws.rows[r - 1][NAME] = None}

\* The device rows of the Block starting at row b.
BlockSize(ws, b) ==
    Max({k \in 1..(Len(ws.rows) - b + 1) :
            \A j \in 0..(k - 1) : ws.rows[b + j][NAME] # None})

\* The last row before the next Block, or the sheet's last row.
BlockEnd(ws, b) ==
    IF \E c \in BlockStarts(ws) : c > b
    THEN (CHOOSE c \in BlockStarts(ws) :
            c > b /\ \A d \in BlockStarts(ws) : d > b => c <= d) - 1
    ELSE Len(ws.rows)

LastBlockStart(ws) == Max(BlockStarts(ws))

\* A usage file on disk, as a reader gets it.
Stored(f) == load_workbook(usage_files[f])

(* -------------------------------- C1 ---------------------------------- *)

\* C1: appending a Block changes no cell of a persisted Block: no step of
\* a run changes a row below the run's start_row (nor removes a merged
\* range), and a usage file on disk only ever grows by rows after its
\* last one.
C1_PriorBlocksUntouched ==
    [][ /\ (pc \in BlockPcs /\ pc' \in BlockPcs) =>
             /\ \A r \in 1..(start_row_of(config_data) - 1) :
                    /\ r <= Len(worksheet'.rows)
                    /\ worksheet'.rows[r] = worksheet.rows[r]
             /\ worksheet.merged \subseteq worksheet'.merged
             /\ \A m \in worksheet'.merged \ worksheet.merged :
                    m[1] >= start_row_of(config_data)
        /\ \A f \in FileNames :
             usage_files[f] # None =>
                /\ usage_files'[f] # None
                /\ Len(Stored(f)'.rows) >= Len(Stored(f).rows)
                /\ \A r \in 1..Len(Stored(f).rows) :
                       Stored(f)'.rows[r] = Stored(f).rows[r]
                /\ Stored(f).merged \subseteq Stored(f)'.merged
      ]_vars

\* A second Block is on disk whose valve setting differs from the one of
\* the Block before it, which is still there.
C1_Witness ==
    /\ pc = "open_usage"
    /\ Cardinality(BlockStarts(Stored(file_path))) >= 2
    /\ LET ws == Stored(file_path)
       IN  /\ ws.rows[FIRST_DATA_ROW][VALVE_SETTING] # None
           /\ ws.rows[LastBlockStart(ws)][VALVE_SETTING] # None
           /\ ws.rows[LastBlockStart(ws)][VALVE_SETTING]
                # ws.rows[FIRST_DATA_ROW][VALVE_SETTING]

(* -------------------------------- C2 ---------------------------------- *)

\* C2: a run's start_row is one past the last row of the worksheet as
\* loaded, and in every usage file on disk a Block begins only after the
\* device rows, the total row and the blank lines of every earlier Block.
C2_StartRowAfterLastRow ==
    /\ pc \in BlockPcs =>
          /\ start_row_of(config_data) = Len(Loaded.rows) + 1
          /\ \A r \in 1..Len(Loaded.rows) : worksheet.rows[r] = Loaded.rows[r]
    /\ \A f \in FileNames :
          usage_files[f] # None =>
             \A b1, b2 \in BlockStarts(Stored(f)) :
                b1 < b2 => b2 > b1 + BlockSize(Stored(f), b1) + BLANK_LINES

\* A run on a file that holds a Block already has computed its start_row.
C2_Witness ==
    /\ pc = "fill_registry_data"
    /\ exists(file_path)
    /\ start_row_of(config_data) > FIRST_DATA_ROW

(* -------------------------------- C3 ---------------------------------- *)

\* The second run on a ledger of SampleDevices radiators whose first Block
\* began at row 2 has computed its start rows.
SecondSampleRun ==
    /\ pc \in BlockPcs
    /\ exists(file_path)
    /\ BlockStarts(Loaded) = {FIRST_DATA_ROW}
    /\ "radiators_owned" \in DOMAIN config_data
    /\ radiators_owned_of(config_data) = SampleDevices

\* C3 as stated: the second run computes start_row = 6 (2 + 3 device rows
\* + 1 total row) and last_start_row = 2.
C3_Original ==
    SecondSampleRun =>
        /\ start_row_of(config_data) = FIRST_DATA_ROW + SampleDevices + 1
        /\ config_data["last_start_row"] = FIRST_DATA_ROW

\* C3 amended: the second run computes start_row = 9 (2 + 3 device rows +
\* 1 total row + 3 blank lines) and last_start_row = 2.
C3_StartRowAfterBlankLines ==
    SecondSampleRun =>
        /\ start_row_of(config_data)
             = FIRST_DATA_ROW + SampleDevices + 1 + BLANK_LINES
        /\ config_data["last_start_row"] = FIRST_DATA_ROW

C3_Witness ==
    /\ SecondSampleRun
    /\ pc = "fill_registry_data"
    /\ start_row_of(config_data) = 9

(* -------------------------------- C4 ---------------------------------- *)

\* C4: when the valve settings are done, in either branch, every device
\* row of the new Block holds a valve setting in column 8.
C4_ValveSettingNeverAbsent ==
    pc = "get_raw_readings" =>
        \A r \in start_row_of(config_data)..
                 (start_row_of(config_data)
                    + radiators_owned_of(config_data) - 1) :
            cell_value(worksheet, r, VALVE_SETTING) # None

(* -------------------------------- C5 ---------------------------------- *)

\* C5: a device whose change the user declines gets, at row start_row + i,
\* the valve setting of the same ordinal in the previous Block of the
\* ledger being appended to.
C5_DeclinedEqualsPreviousBlock ==
    pc = "KEEP" =>
        cell_value(worksheet, new_row(config_data, i), VALVE_SETTING)
          = cell_value(Loaded, LastBlockStart(Loaded) + i, VALVE_SETTING)

(* -------------------------------- C6 ---------------------------------- *)

\* The run appends to another file than the one the persisted config names.
FileNameChanged ==
    /\ config_file # None
    /\ "usage_name" \in DOMAIN config_file[1]
    /\ config_file[1]["usage_name"] # file_path

\* C6: in a subsequent-Block run after a change of the file name, the
\* carry-forward source rows begin at the most recent Block of the file
\* being appended to.
C6_SourceRowsOfCurrentFile ==
    (pc \in UpdatePcs /\ FileNameChanged) =>
        config_data["last_start_row"] = LastBlockStart(Loaded)

(* -------------------------------- C7 ---------------------------------- *)

\* A Block as _populate_usage finishes it: device rows with date, registry
\* data, reading and actual value, the total row, the note in the merged
\* cell of column 9, and BLANK_LINES rows without a value at its end.
\* (The valve settings are C4's.)
WholeBlock(ws, b) ==
    LET n == BlockSize(ws, b)
        e == BlockEnd(ws, b)
    IN  /\ \A r \in b..(b + n - 1) :
              \A c \in {DATE, NAME, RADIATOR_ID, COEFFICIENT,
                        RAW_READING, ACTUAL_VALUE} : ws.rows[r][c] # None
        /\ b + n <= Len(ws.rows)
        /\ ws.rows[b + n][DATE] # None
        /\ ws.rows[b + n][TOTAL] # None
        /\ ws.rows[b][NOTES] # None
        /\ <<b, b + n - 1>> \in ws.merged
        /\ e >= b + n + BLANK_LINES
        /\ \A r \in (e - BLANK_LINES + 1)..e : ws.rows[r] = EmptyRow

\* A ledger of a header and whole Blocks only.
WholeLedger(ws) ==
    /\ Len(ws.rows) >= 1
    /\ ws.rows[1] = HEADERS
    /\ \A r \in FIRST_DATA_ROW..Len(ws.rows) :
          ws.rows[r] # EmptyRow => \E b \in BlockStarts(ws) :
                                      b <= r /\ r <= BlockEnd(ws, b)
    /\ \A b \in BlockStarts(ws) : WholeBlock(ws, b)

\* C7: only the save of the workbook changes a usage file (a process
\* ending before it leaves the file as it was), and every usage file a
\* step leaves changed on disk holds the header and whole Blocks only.
C7_SaveIsTheDurabilityBoundary ==
    [][ /\ usage_files' # usage_files => pc = "save_usage"
        /\ \A f \in FileNames :
             usage_files'[f] # usage_files[f] =>
                 /\ usage_files'[f] # None
                 /\ LET ws == load_workbook(usage_files'[f])
                    IN  WholeLedger(ws)
      ]_vars

\* A Block is half built in memory, its total not yet written, while the
\* file on disk holds the earlier Block.
C7_Witness ==
    /\ pc = "get_total"
    /\ exists(file_path)
    /\ Len(worksheet.rows) > Len(Stored(file_path).rows)
    /\ WholeLedger(Stored(file_path))

(* -------------------------------- C8 ---------------------------------- *)

\* C8: a run whose persisted config holds no START_ROW enters the valve
\* settings by the first-Block branch, never by the review of old rows.
C8_NoStartRowFirstBranch ==
    (/\ pc \in InitialPcs \cup UpdatePcs
     /\ config_file = None \/ "start_row" \notin DOMAIN config_file[1])
        => pc \in InitialPcs

C8_Witness ==
    /\ pc = "enter_initial_valve_settings"
    /\ config_file = None
    /\ config_data["last_start_row"] = start_row_of(config_data)

(* -------------------------------- C9 ---------------------------------- *)

\* The new setting is in column 8 of row start_row + i.
NewSettingWritten(ws) ==
    /\ new_valve_setting # None
    /\ cell_value(ws, start_row_of(config_data) + i, VALVE_SETTING)
         = new_valve_setting

\* C9 as stated: from CONFIRM a rejection leads back to ENTER and writes
\* nothing, a confirmation leads to APPLIED with the new value written at
\* row start_row + i.
C9_Original ==
    [][ (pc = "CONFIRM" /\ pc' # "off") =>
           \/ pc' = "ENTER" /\ worksheet' = worksheet
           \/ pc' = "APPLIED" /\ NewSettingWritten(worksheet')
      ]_vars

\* C9 amended: from CONFIRM a rejection leads back to REVIEW, the "change?"
\* prompt, and writes nothing; a confirmation leads to APPLIED with the new
\* value written at row start_row + i.
C9_RejectionReturnsToReview ==
    [][ (pc = "CONFIRM" /\ pc' # "off") =>
           \/ pc' = "REVIEW" /\ worksheet' = worksheet
           \/ pc' = "APPLIED" /\ NewSettingWritten(worksheet')
      ]_vars

\* A confirmation has been rejected: the device is at the "change?" prompt
\* again, the rejected value not written.
C9_Witness ==
    /\ pc = "REVIEW"
    /\ new_valve_setting # None
    /\ cell_value(worksheet, start_row_of(config_data) + i, VALVE_SETTING)
         = None

(* -------------------------------- C10 --------------------------------- *)

DeviceRowsOf(ws) ==
    {r \in FIRST_DATA_ROW..Len(ws.rows) : ws.rows[r][NAME] # None}

\* The positions of a run after _get_actual_values.
ComputedPcs == {"get_total", "get_notes", "add_blank_lines", "save_usage"}

ActualValuesRight(ws) ==
    \A r \in DeviceRowsOf(ws) :
        /\ ws.rows[r][COEFFICIENT] # None
        /\ ws.rows[r][RAW_READING] # None
        /\ ws.rows[r][ACTUAL_VALUE]
             = Some(ws.rows[r][COEFFICIENT][1] * ws.rows[r][RAW_READING][1])

\* C11: once a run has computed the actual values, and in every usage
\* file on disk, column 6 of every device row of every Block is column 4
\* times column 5 of the same row.
C11_ActualIsCoefficientTimesReading ==
    /\ pc \in ComputedPcs => ActualValuesRight(worksheet)
    /\ \A f \in FileNames :
          usage_files[f] # None => ActualValuesRight(Stored(f))

\* A file holds a Block made before and a Block made after the user
\* changed a coefficient in the registry.
C11_Witness ==
    /\ pc = "open_usage"
    /\ \E r1, r2 \in DeviceRowsOf(Stored(file_path)) :
          /\ r1 < r2
          /\ Stored(file_path).rows[r1][NAME] = Stored(file_path).rows[r2][NAME]
          /\ Stored(file_path).rows[r1][COEFFICIENT]
               # Stored(file_path).rows[r2][COEFFICIENT]
          /\ Stored(file_path).rows[r2][ACTUAL_VALUE] = Some(50)

(* -------------------------------- C12 --------------------------------- *)

\* The Block of n device rows from row b on has its total, the sum of its
\* actual values, in column 7 of row b + n and in no other of the rows
\* b..e.
TotalRight(ws, b, n, e) ==
    /\ \A r \in b..(b + n - 1) : cell_value(ws, r, ACTUAL_VALUE) # None
    /\ cell_value(ws, b + n, TOTAL)
         = Some(Sum([r \in b..(b + n - 1) |-> cell_value(ws, r, ACTUAL_VALUE)[1]],
                    b..(b + n - 1)))
    /\ \A r \in b..e : r # b + n => cell_value(ws, r, TOTAL) = None

\* The documented sample: coefficients 1, 2, 3 and readings 10, 7, 15 in
\* the three device rows from row b on.
SampleReadings(ws, b) ==
    /\ b + 2 <= Len(ws.rows)
    /\ <<ws.rows[b][COEFFICIENT], ws.rows[b + 1][COEFFICIENT],
         ws.rows[b + 2][COEFFICIENT]>> = <<Some(1), Some(2), Some(3)>>
    /\ <<ws.rows[b][RAW_READING], ws.rows[b + 1][RAW_READING],
         ws.rows[b + 2][RAW_READING]>> = <<Some(10), Some(7), Some(15)>>

\* The positions of a run after _get_total.
TotalledPcs == {"get_notes", "add_blank_lines", "save_usage"}

\* C12: once a run has written the total, and for every Block of every
\* usage file on disk, column 7 of the row after the last device row holds
\* the sum of the Block's actual values and no other row of the Block holds
\* a total; the sample's readings give 10, 14, 45 and the total 69.
C12_TotalIsSumOfBlock ==
    /\ pc \in TotalledPcs =>
          LET b == start_row_of(config_data)
              n == radiators_owned_of(config_data)
          IN  /\ TotalRight(worksheet, b, n, Len(worksheet.rows))
              /\ (n = SampleDevices /\ SampleReadings(worksheet, b)) =>
                    /\ <<worksheet.rows[b][ACTUAL_VALUE],
                         worksheet.rows[b + 1][ACTUAL_VALUE],
                         worksheet.rows[b + 2][ACTUAL_VALUE]>>
                          = <<Some(10), Some(14), Some(45)>>
                    /\ worksheet.rows[b + SampleDevices][TOTAL] = Some(69)
    /\ \A f \in FileNames :
          usage_files[f] # None =>
             \A b \in BlockStarts(Stored(f)) :
                TotalRight(Stored(f), b, BlockSize(Stored(f), b),
                           BlockEnd(Stored(f), b))

\* The sample's Block has its total.
C12_Witness ==
    /\ pc = "get_notes"
    /\ radiators_owned_of(config_data) = SampleDevices
    /\ SampleReadings(worksheet, start_row_of(config_data))
    /\ cell_value(worksheet, start_row_of(config_data) + SampleDevices, TOTAL)
         = Some(69)

(* -------------------------------- C13 --------------------------------- *)

\* The Device list: the registry's rows after its header.
Devices == SubSeq(registry_file[1], FIRST_DATA_ROW, Len(registry_file[1]))

\* The positions of a run after _fill_registry_data, and after _fill_dates.
FilledPcs == BlockPcs \ {"fill_registry_data"}
DatedPcs == FilledPcs \ {"fill_dates", "confirm_date"}

\* C13: once a run has copied the registry, the device rows from start_row
\* on are as many as the Device list is long and row start_row + k holds
\* the name, id and coefficient of Device k, in the list's order; the
\* device count the later steps take from the config is that number; and
\* every Block on disk has that many device rows, with the Devices' names
\* in the list's order.
C13_DeviceRowsAreTheDeviceList ==
    /\ pc \in FilledPcs =>
          LET b == start_row_of(config_data)
          IN  /\ {r \in DeviceRowsOf(worksheet) : r >= b}
                   = b..(b + Len(Devices) - 1)
              /\ \A k \in 1..Len(Devices) :
                    <<worksheet.rows[b + k - 1][NAME],
                      worksheet.rows[b + k - 1][RADIATOR_ID],
                      worksheet.rows[b + k - 1][COEFFICIENT]>> = Devices[k]
              /\ "radiators_owned" \in DOMAIN config_data =>
                    radiators_owned_of(config_data) = Len(Devices)
              /\ pc \in DatedPcs => "radiators_owned" \in DOMAIN config_data
    /\ \A f \in FileNames :
          usage_files[f] # None =>
             \A b \in BlockStarts(Stored(f)) :
                /\ BlockSize(Stored(f), b) = Len(Devices)
                /\ \A k \in 1..Len(Devices) :
                      Stored(f).rows[b + k - 1][NAME] = Devices[k][1]

\* A later Block of two Devices has been begun after a coefficient was
\* changed in the registry.
C13_Witness ==
    /\ pc = "fill_dates"
    /\ Len(Devices) = 2
    /\ start_row_of(config_data) > FIRST_DATA_ROW
    /\ worksheet.rows[start_row_of(config_data) + 1][COEFFICIENT] = Some(5)
    /\ worksheet.rows[FIRST_DATA_ROW + 1][COEFFICIENT] = Some(2)

(* -------------------------------- C14 --------------------------------- *)

\* The Block of n device rows from row b on, reaching to row e, has its
\* note in column 9 of row b and of no other row, and the one merged range
\* beginning in it is that of its device rows.
NoteRight(ws, b, n, e) ==
    /\ cell_value(ws, b, NOTES) # None
    /\ \A r \in (b + 1)..e : cell_value(ws, r, NOTES) = None
    /\ {m \in ws.merged : b <= m[2] /\ m[1] <= e} = {<<b, b + n - 1>>}

\* The positions of a run after _get_notes.
NotedPcs == {"add_blank_lines", "save_usage"}

\* C14: once a run has written the note, and for every Block of every
\* usage file on disk, the note is in column 9 of the Block's first row and
\* in no other of its rows, and the merged range of column 9 is that of the
\* Block's device rows, without the total row and the blank lines.
C14_NoteInFirstRowOfMergedDeviceRows ==
    /\ pc \in NotedPcs =>
          NoteRight(worksheet, start_row_of(config_data),
                    radiators_owned_of(config_data), Len(worksheet.rows))
    /\ \A f \in FileNames :
          usage_files[f] # None =>
             /\ \A b \in BlockStarts(Stored(f)) :
                   NoteRight(Stored(f), b, BlockSize(Stored(f), b),
                             BlockEnd(Stored(f), b))
             /\ Cardinality(Stored(f).merged)
                  = Cardinality(BlockStarts(Stored(f)))

\* The second Block of three Devices has the user's note.
C14_Witness ==
    /\ pc = "save_usage"
    /\ radiators_owned_of(config_data) = SampleDevices
    /\ start_row_of(config_data) > FIRST_DATA_ROW
    /\ cell_value(worksheet, start_row_of(config_data), NOTES)
         = Some("cold week")
    /\ <<start_row_of(config_data), start_row_of(config_data) + 2>>
         \in worksheet.merged

(* -------------------------------- C15 --------------------------------- *)

\* The config file holds a START_ROW.
StartRowPersisted ==
    config_file # None /\ "start_row" \in DOMAIN config_file[1]

\* C15: in a run that has computed its start rows, last_start_row is the
\* run's own start_row when the config file holds no START_ROW, and the
\* START_ROW of the config file otherwise.
C15_LastStartRowIsPersistedStartRow ==
    pc \in BlockPcs =>
        config_data["last_start_row"] =
            IF StartRowPersisted THEN config_file[1]["start_row"]
            ELSE start_row_of(config_data)

\* A later run: last_start_row is the persisted START_ROW and differs from
\* the run's start_row.
C15_Witness ==
    /\ pc = "fill_registry_data"
    /\ StartRowPersisted
    /\ config_data["last_start_row"] = config_file[1]["start_row"]
    /\ config_data["last_start_row"] < start_row_of(config_data)

(* -------------------------------- C16 --------------------------------- *)

\* C16 as stated: a run on a new ledger computes start_row = 1, any other
\* one past the last row of the ledger as loaded.
C16_Original ==
    pc \in BlockPcs =>
        start_row_of(config_data) =
            IF ~exists(file_path) THEN 1
            ELSE Len(load_workbook(usage_files[file_path]).rows) + 1

\* C16 amended: a run on a new ledger computes start_row = 2, the row
\* after the header it has just written; any other one past the last row
\* of the ledger as loaded.
C16_NewLedgerStartsAfterHeader ==
    pc \in BlockPcs =>
        start_row_of(config_data) =
            IF ~exists(file_path) THEN 2
            ELSE Len(load_workbook(usage_files[file_path]).rows) + 1

\* A run on a new ledger has computed its start row, the header in row 1.
C16_Witness ==
    /\ pc = "fill_registry_data"
    /\ ~exists(file_path)
    /\ worksheet.rows = <<HEADERS>>
    /\ start_row_of(config_data) = 2

(* -------------------------------- C17 --------------------------------- *)

\* C17: in every state of a run after the device rows have been written,
\* up to the save, the program has a step that goes on with the run: no
\* such state is a dead end or leaves an exception as the only step.
C17_NoMidBlockAbort ==
    pc \in FilledPcs => ENABLED (Next /\ pc' # "off")

(* -------------------------------- C18 --------------------------------- *)

\* The rows of the Block a run is making: its device rows and total row.
BlockRows ==
    start_row_of(config_data)..(start_row_of(config_data) + Len(Devices))

\* This step writes column c of the Block; column c of the Block is
\* empty; the step of column c has been done.
ColChanged(c) ==
    \E r \in BlockRows :
        cell_value(worksheet', r, c) # cell_value(worksheet, r, c)

ColEmpty(ws, c) == \A r \in BlockRows : cell_value(ws, r, c) = None

ColDone(ws, c) ==
    cell_value(ws, IF c = TOTAL
                   THEN start_row_of(config_data) + Len(Devices)
                   ELSE start_row_of(config_data), c) # None

\* The blank lines: the rows after the Block's total row.
PaddingRows(ws) ==
    {r \in 1..Len(ws.rows) : r > start_row_of(config_data) + Len(Devices)}

PaddingChanged ==
    \E r \in PaddingRows(worksheet') :
        cell_value(worksheet', r, DATE) # cell_value(worksheet, r, DATE)

NoPadding(ws) == \A r \in PaddingRows(ws) : cell_value(ws, r, DATE) = None

\* A step of a run keeps the order of the columns: when it writes one, the
\* later ones and the blank lines are still to come, and the earlier ones
\* have been done (the valve setting may have been done with no value, see
\* C4); the blank lines come after all of them.
StepInOrder(order) ==
    (pc \in BlockPcs /\ pc' \in BlockPcs) =>
        /\ \A k \in 1..Len(order) :
              ColChanged(order[k]) =>
                 /\ \A j \in (k + 1)..Len(order) : ColEmpty(worksheet', order[j])
                 /\ NoPadding(worksheet')
                 /\ \A j \in 1..(k - 1) :
                       order[j] # VALVE_SETTING => ColDone(worksheet, order[j])
        /\ PaddingChanged =>
              \A j \in 1..Len(order) :
                 order[j] # VALVE_SETTING => ColDone(worksheet, order[j])

\* C18 as stated: the order is date, device rows, valve settings, raw
\* readings, actual values, total, notes, padding.
C18_Original ==
    [][StepInOrder(<<DATE, NAME, VALVE_SETTING, RAW_READING, ACTUAL_VALUE,
                     TOTAL, NOTES>>)]_vars

\* C18 amended: the order is device rows, date, valve settings, raw
\* readings, actual values, total, notes, padding.
C18_DeviceRowsThenDateThenTheRest ==
    [][StepInOrder(<<NAME, DATE, VALVE_SETTING, RAW_READING, ACTUAL_VALUE,
                     TOTAL, NOTES>>)]_vars

\* The device rows of a second Block are written, its dates are not yet.
C18_Witness ==
    /\ pc = "fill_dates"
    /\ start_row_of(config_data) > FIRST_DATA_ROW
    /\ cell_value(worksheet, start_row_of(config_data), NAME) # None
    /\ ColEmpty(worksheet, DATE)

(* -------------------------------- C19 --------------------------------- *)

\* C19: when a run has added its blank lines, they are the BLANK_LINES
\* rows after the Block's total row, and the worksheet's last row is
\* start_row + device_count + BLANK_LINES.
C19_ThreeBlankRowsAfterTotal ==
    pc = "save_usage" =>
        LET total_row == start_row_of(config_data)
                           + radiators_owned_of(config_data)
        IN  /\ max_row(worksheet) = total_row + BLANK_LINES
            /\ \A r \in (total_row + 1)..(total_row + BLANK_LINES) :
                  cell_value(worksheet, r, DATE) = Some(EMPTY_STR)

(* -------------------------------- C20 --------------------------------- *)

\* The START_ROW and LAST_START_ROW of a config.
StartRowPair(data) == <<data["start_row"], data["last_start_row"]>>

\* C20: the step that computes the start rows sets START_ROW to the row
\* after the worksheet's last one and LAST_START_ROW to the START_ROW the
\* config held before the step (to the new start_row if it held none), and
\* marks the config as updated; no later step of the run changes the pair
\* or the mark; and the save at the end of a completed run leaves that
\* pair in the config file.
C20_StartRowPairOverwrittenAndPersisted ==
    [][/\ pc = "update_start_rows" /\ pc' # "off" =>
            /\ config_data'["start_row"] = max_row(worksheet) + 1
            /\ config_data'["last_start_row"] =
                  IF "start_row" \in DOMAIN config_data
                  THEN config_data["start_row"]
                  ELSE max_row(worksheet) + 1
            /\ config_update'
       /\ pc \in BlockPcs \cup {"open_usage"} /\ pc' # "off" =>
            /\ StartRowPair(config_data') = StartRowPair(config_data)
            /\ config_update'
       /\ pc = "save_app" /\ pc' = "off" /\ config_file' # config_file =>
            /\ config_file' # None
            /\ StartRowPair(config_file'[1]) = StartRowPair(config_data)
      ]_vars

\* A second completed run has left its pair in the config file.
C20_Witness ==
    /\ pc = "off"
    /\ config_file # None
    /\ "start_row" \in DOMAIN config_file[1]
    /\ config_file[1]["start_row"] > config_file[1]["last_start_row"]

(* -------------------------------- C21 --------------------------------- *)

\* The run enters its date by hand.
ManualMode ==
    /\ "date_input_mode" \in DOMAIN config_data
    /\ config_data["date_input_mode"] = DATE_MANUAL

\* The days of the months of the calendar.
MonthLengths == <<31, 28, 31, 30, 31, 30, 31, 31, 30, 31, 30, 31>>

\* <<day, month, year>> is a date of the calendar.
RealDate(entry) ==
    /\ entry[2] \in 1..12
    /\ entry[1] >= 1
    /\ \/ entry[1] <= MonthLengths[entry[2]]
       \/ /\ entry[1] = 29 /\ entry[2] = 2
          /\ entry[3] % 4 = 0
          /\ entry[3] % 100 # 0 \/ entry[3] % 400 = 0

\* The texts of the entries that are no dates, in either format.
UnrealDateTexts ==
    UNION {{two_digits(e[1]) \o "/" \o two_digits(e[2]) \o "/" \o ToString(e[3]),
            two_digits(e[2]) \o "/" \o two_digits(e[1]) \o "/" \o ToString(e[3])} :
           e \in {d \in env.dates : ~RealDate(d)}}

DeviceRowsOfBlock ==
    start_row_of(config_data)..(start_row_of(config_data) + Len(Devices) - 1)

\* C22: in the first-Block branch the entry step takes a valve setting for
\* every device row and leads to the review; the review is one step for the
\* whole Block that changes no value and either accepts the settings or
\* leads back to the entry of all of them; the branch begins with the entry
\* and is left only by the review.
C22_InitialEntriesThenOneBulkReview ==
    [][pc' # "off" =>
         /\ pc = "enter_initial_valve_settings" =>
              /\ pc' = "recap_valve_settings"
              /\ \A r \in DeviceRowsOfBlock :
                    \E entry \in env.valves :
                       cell_value(worksheet', r, VALVE_SETTING) = Some(entry)
         /\ pc = "recap_valve_settings" =>
              /\ pc' \in {"enter_initial_valve_settings", "get_raw_readings"}
              /\ \A r \in 1..Len(worksheet'.rows), c \in 1..NOTES :
                    cell_value(worksheet', r, c) = cell_value(worksheet, r, c)
              /\ \A r \in DeviceRowsOfBlock :
                    cell_value(worksheet, r, VALVE_SETTING) # None
         /\ (pc \in InitialPcs /\ pc' \notin InitialPcs) =>
              pc = "recap_valve_settings"
         /\ (pc \notin InitialPcs /\ pc' \in InitialPcs) =>
              pc' = "enter_initial_valve_settings"
      ]_vars

\* The settings of two devices, one differing from the other, are under
\* review in a new file.
C22_Witness ==
    /\ pc = "recap_valve_settings"
    /\ ~exists(file_path)
    /\ Len(Devices) = 2
    /\ cell_value(worksheet, start_row_of(config_data), VALVE_SETTING)
         # cell_value(worksheet, start_row_of(config_data) + 1, VALVE_SETTING)

(* -------------------------------- C23 --------------------------------- *)

\* C23: a step that changes an existing registry is the registry's set-up;
\* it leaves the header, the number of rows and every name cell as they
\* were, in their order, so that it changes id and coefficient cells only.
C23_RegistryUpdateKeepsNames ==
    [][(registry_file # None /\ registry_file' # registry_file) =>
         /\ pc = "setup_registry"
         /\ registry_file' # None
         /\ Len(registry_file'[1]) = Len(registry_file[1])
         /\ registry_file'[1][1] = registry_file[1][1]
         /\ \A n \in FIRST_DATA_ROW..Len(registry_file[1]) :
               registry_file'[1][n][1] = registry_file[1][n][1]
      ]_vars

\* A registry whose radiator has got another id and another coefficient.
C23_Witness ==
    /\ registry_file # None
    /\ Len(registry_file[1]) = FIRST_DATA_ROW
    /\ registry_file[1][FIRST_DATA_ROW]
         = <<Some(RadiatorNames[1]), Some(7), Some(3)>>

(* -------------------------------- C24 --------------------------------- *)

\* The dates the user may get written, in either format.
DateTexts ==
    UNION {{two_digits(e[1]) \o "/" \o two_digits(e[2]) \o "/" \o ToString(e[3]),
            two_digits(e[2]) \o "/" \o two_digits(e[1]) \o "/" \o ToString(e[3])} :
           e \in env.dates}

\* C24: the step that writes the date puts one date text into column 1 of
\* every device row of the Block and of its total row, and changes column 1
\* of no other row; the Block keeps that date to its save; and in a file a
\* step has saved, every Block's device rows and total row hold one date
\* and its other rows none.
C24_OneDateForBlockAndTotalRow ==
    [][/\ (pc \in {"fill_dates", "confirm_date"}
             /\ pc' = "manage_valve_settings") =>
            /\ \E date \in DateTexts :
                  \A r \in BlockRows :
                     cell_value(worksheet', r, DATE) = Some(date)
            /\ Len(worksheet'.rows) = Len(worksheet.rows) + 1
            /\ \A r \in 1..Len(worksheet'.rows) :
                  r \notin BlockRows =>
                     cell_value(worksheet', r, DATE)
                        = cell_value(worksheet, r, DATE)
       /\ pc \in DatedPcs =>
            \A r \in BlockRows :
               /\ cell_value(worksheet, r, DATE) # None
               /\ cell_value(worksheet, r, DATE)
                     = cell_value(worksheet, start_row_of(config_data), DATE)
       /\ \A f \in FileNames :
            usage_files'[f] # usage_files[f] =>
               LET ws == load_workbook(usage_files'[f])
               IN  \A b \in BlockStarts(ws) :
                      /\ ws.rows[b][DATE] # None
                      /\ \A r \in b..(b + BlockSize(ws, b)) :
                            ws.rows[r][DATE] = ws.rows[b][DATE]
                      /\ \A r \in (b + BlockSize(ws, b) + 1)..BlockEnd(ws, b) :
                            ws.rows[r][DATE] = None
      ]_vars

\* A second Block, its date entered by hand and written in the American
\* format, has its total.
C24_Witness ==
    /\ pc = "get_notes"
    /\ start_row_of(config_data) > FIRST_DATA_ROW
    /\ cell_value(worksheet, start_row_of(config_data) + Len(Devices), DATE)
         = Some("04/01/2025")

(* -------------------------------- C25 --------------------------------- *)

\* The notes a Block may get: a text of the user's, or the default text.
NoteTexts == {Some(note) : note \in env.notes} \cup {Some(DEFAULT_NOTE)}

\* C25: the note step is one step, from the total to the blank lines; after
\* it column 9 of the Block's first row holds a text the user entered or
\* the default text, and the merged range of the device rows exists, with
\* every other cell as it was; and in a file a step has saved, the first
\* row of every Block holds such a note.
C25_NoteGateAlwaysLeavesANote ==
    [][/\ (pc = "get_notes" /\ pc' # "off") =>
            /\ pc' = "add_blank_lines"
            /\ cell_value(worksheet', start_row_of(config_data), NOTES)
                  \in NoteTexts
            /\ worksheet'.merged =
                  worksheet.merged
                     \cup {<<start_row_of(config_data),
                             start_row_of(config_data) + Len(Devices) - 1>>}
            /\ \A r \in 1..Len(worksheet'.rows), c \in 1..NOTES :
                  <<r, c>> # <<start_row_of(config_data), NOTES>> =>
                     cell_value(worksheet', r, c) = cell_value(worksheet, r, c)
       /\ (pc' = "add_blank_lines" /\ pc # pc') => pc = "get_notes"
       /\ \A f \in FileNames :
            usage_files'[f] # usage_files[f] =>
               LET ws == load_workbook(usage_files'[f])
               IN  \A b \in BlockStarts(ws) : ws.rows[b][NOTES] \in NoteTexts
      ]_vars

\* The user could have entered a text and declined: the second Block of a
\* saved file holds the default note, its first Block the user's.
C25_Witness ==
    /\ pc = "off"
    /\ usage_files["usage_A.xlsx"] # None
    /\ LET ws == Stored("usage_A.xlsx")
       IN  /\ Cardinality(BlockStarts(ws)) = 2
           /\ ws.rows[FIRST_DATA_ROW][NOTES] = Some("cold week")
           /\ ws.rows[LastBlockStart(ws)][NOTES] = Some(DEFAULT_NOTE)

(* -------------------------------- C26 --------------------------------- *)

\* C26: in a run that appends a Block to the existing file the persisted
\* config names, the START_ROW of the config file is the row where the
\* file's last Block starts.
C26_PersistedStartRowIsLastBlock ==
    (pc \in BlockPcs /\ exists(file_path) /\ ~FileNameChanged) =>
        /\ StartRowPersisted
        /\ config_file[1]["start_row"] = LastBlockStart(Loaded)

(* -------------------------------- C27 --------------------------------- *)

\* C27: while a run generates its Block, the config holds RADIATORS_OWNED
\* and it is the number of the registry's data rows; once the device rows
\* are written they are the rows start_row .. start_row + RADIATORS_OWNED
\* - 1, so that the total row, start_row + RADIATORS_OWNED, is none of
\* them.
C27_RadiatorsOwnedIsRegistrySize ==
    pc \in BlockPcs =>
        /\ "radiators_owned" \in DOMAIN config_data
        /\ radiators_owned_of(config_data) = Len(Devices)
        /\ pc \in FilledPcs =>
              \A r \in start_row_of(config_data)..Len(worksheet.rows) :
                 cell_value(worksheet, r, NAME) # None
                    <=> r < start_row_of(config_data)
                              + radiators_owned_of(config_data)

(* -------------------------------- C28 --------------------------------- *)

\* The positions of a run after _update_start_rows.
TrackedPcs == BlockPcs \cup {"open_usage", "save_app"}

\* C28: a step of a run never clears the mark of the config, and sets it
\* when it changes the in-memory config; from _update_start_rows on the
\* mark is set; and the step that ends a run at save_app leaves the config
\* file as it was or holding the whole in-memory config.
C28_ConfigChangesAreMarked ==
    [][/\ (pc # "off" /\ pc' # "off") =>
            /\ config_update => config_update'
            /\ config_data' # config_data => config_update'
       /\ pc' \in TrackedPcs => config_update'
       /\ (pc = "save_app" /\ pc' = "off") =>
            /\ config_update
            /\ config_file' \in {config_file, Some(config_data)}
      ]_vars

\* A second run on another file is about to save a config that differs
\* from the config file in its file name and its start rows.
C28_Witness ==
    /\ pc = "save_app"
    /\ config_update
    /\ config_file # None
    /\ config_file[1]["usage_name"] # config_data["usage_name"]
    /\ config_file[1]["last_start_row"] # config_data["last_start_row"]

(* -------------------------------- C29 --------------------------------- *)

\* The rows of a worksheet that hold the header.
HeaderRows(ws) == {r \in 1..Len(ws.rows) : ws.rows[r] = HEADERS}

\* C29: the set-up of the workbook writes the header exactly when the file
\* is not on disk, and loads the file otherwise; the valve settings take
\* the first-Block branch exactly when the file is not on disk, the Block
\* then starting at row 2; through the whole Block the header is row 1 and
\* no other row; and a saved file holds the header in row 1 only, its
\* first Block at row 2, and keeps its row 1 when it is saved again.
C29_HeaderOnceWithFirstBlock ==
    [][/\ (pc = "manage_usage" /\ pc' # "off") =>
            IF exists(file_path')
            THEN worksheet' = load_workbook(usage_files[file_path'])
            ELSE worksheet'.rows = <<HEADERS>>
       /\ (pc = "manage_valve_settings" /\ pc' # "off") =>
            /\ pc' = "enter_initial_valve_settings" <=> ~exists(file_path)
            /\ pc' = "update_valve_setting" <=> exists(file_path)
            /\ ~exists(file_path) => start_row_of(config_data) = FIRST_DATA_ROW
            /\ exists(file_path) => start_row_of(config_data) > FIRST_DATA_ROW
       /\ pc \in BlockPcs => HeaderRows(worksheet) = {1}
       /\ \A f \in FileNames :
            usage_files'[f] # usage_files[f] =>
               LET ws == load_workbook(usage_files'[f])
               IN  /\ HeaderRows(ws) = {1}
                   /\ FIRST_DATA_ROW \in BlockStarts(ws)
                   /\ usage_files[f] # None =>
                         /\ ws.rows[1] = load_workbook(usage_files[f]).rows[1]
                         /\ pc \in TrackedPcs /\ start_row_of(config_data) > FIRST_DATA_ROW
      ]_vars

\* A third run on a file reviews the valve settings, the header in row 1.
C29_Witness ==
    /\ pc = "update_valve_setting"
    /\ exists(file_path)
    /\ Cardinality(BlockStarts(Loaded)) = 2
    /\ HeaderRows(worksheet) = {1}

(* -------------------------------- C30 --------------------------------- *)

\* C30: while the readings are entered or under review the Block holds no
\* actual value and no total; an entry pass, the first or a later one, can
\* give every device row any reading; the review can lead back to the
\* entry or on, the readings as they are; and the actual values and the
\* total that follow are those of the readings the Block then holds.
C30_ReadingsRepeatAsAWhole ==
    /\ pc \in {"get_raw_readings", "recap_raw_readings"} =>
          /\ ColEmpty(worksheet, ACTUAL_VALUE)
          /\ ColEmpty(worksheet, TOTAL)
    /\ pc = "get_raw_readings" =>
          \A entry \in [DeviceRowsOfBlock -> env.readings] :
             ENABLED (/\ get_raw_readings
                      /\ pc' = "recap_raw_readings"
                      /\ \A r \in DeviceRowsOfBlock :
                            cell_value(worksheet', r, RAW_READING)
                               = Some(entry[r]))
    /\ pc = "recap_raw_readings" =>
          /\ \A r \in DeviceRowsOfBlock :
                \E reading \in env.readings :
                   cell_value(worksheet, r, RAW_READING) = Some(reading)
          /\ ENABLED (/\ recap_raw_readings
                      /\ pc' = "get_raw_readings"
                      /\ worksheet'.rows = worksheet.rows)
          /\ ENABLED (/\ recap_raw_readings
                      /\ pc' = "get_actual_values"
                      /\ worksheet'.rows = worksheet.rows)
    /\ pc \in ComputedPcs =>
          \A r \in DeviceRowsOfBlock :
             cell_value(worksheet, r, ACTUAL_VALUE)
                = Some(cell_value(worksheet, r, COEFFICIENT)[1]
                         * cell_value(worksheet, r, RAW_READING)[1])
    /\ pc \in TotalledPcs =>
          cell_value(worksheet, start_row_of(config_data) + Len(Devices), TOTAL)
             = Some(Sum([r \in DeviceRowsOfBlock |->
                            cell_value(worksheet, r, COEFFICIENT)[1]
                               * cell_value(worksheet, r, RAW_READING)[1]],
                        DeviceRowsOfBlock))

\* The user has asked to modify the readings of the sample's three
\* devices: the second entry pass is about to begin.
C30_Witness ==
    /\ pc = "get_raw_readings"
    /\ Len(Devices) = SampleDevices
    /\ \A r \in DeviceRowsOfBlock : cell_value(worksheet, r, RAW_READING) # None

====
